---- MODULE Spec2Model ----
(***************************************************************************)
(* A model of the cryptopro browser client (public/js/cors-helper.js):     *)
(*   - fetchWithCORS: direct requests with rate-limit retries, the proxy   *)
(*     chain, and the mock price for the crypto-price endpoint;            *)
(*   - getWalletData: the wallet cache and the holdings aggregation.       *)
(*                                                                         *)
(* Units.  Money is counted in 1/10000 of a dollar, quantities in 1/10000  *)
(* of a coin, time in milliseconds.                                        *)
(***************************************************************************)
EXTENDS Integers, Sequences, FiniteSets, TLC

VARIABLES
    \* ---- one fetchWithCORS call -------------------------------------
    fpc,          \* "idle", "direct", "proxy", "returned", "threw"
    endpoint,     \* the endpoint argument: [price : BOOLEAN, coin : STRING]
    authHeader,   \* options.headers carries an Authorization header
    attempt,      \* the loop variable of the direct loop (line 89)
    proxyIdx,     \* index in CORS_PROXIES of the next proxy to contact
    netLog,       \* every network request of the call, in order
    sleeps,       \* every sleep(ms) of the call, in order
    lastError,    \* lastError (line 142): "null" or the message kind
    result,       \* the value the call resolved with
    via,          \* which return statement produced result
    thrown,       \* the message of the Error the call threw, or "none"
    \* ---- the page: clock, localStorage, the wallet cache --------------
    clock,                 \* Date.now()
    ticks,                 \* how often the clock has advanced
    token,                 \* localStorage holds a 'token'
    walletDataCache,       \* NullData or the cached formattedWalletData
    walletCacheTimestamp,
    walletCacheWrittenAt,  \* Date.now() when lines 512-513 last ran
    \* ---- the page: auto-logout (lines 30-32 and 853-892) --------------
    otherItems,        \* the localStorage keys 'username', 'isAdmin' that are set
    monitoring,        \* the activity listeners are registered
    timers,            \* the pending timeouts of the page: id and due time
    inactivityTimer,   \* the handle in inactivityTimer, 0 for undefined
    lastActivity,      \* Date.now() at the last call of resetInactivityTimer
    \* ---- the getWalletData calls in flight, by caller ------------------
    wpc,          \* "idle", "wallet", "prices", "done", "threw"
    wnow,         \* the call's local `now`
    winput,       \* walletData.wallet as received (purchases)
    wqueue,       \* coinHoldings entries the for-in loop has yet to visit
    wholdings,    \* the call's local `holdings`
    wret,         \* the value the call resolved with
    wreqs,        \* the network requests the call has issued
    wquotes,      \* the price requests answered so far: key, price, previousPrice
    \* ---- the dashboard page (dashboard.js) -----------------------------
    walletData,        \* the holdings the dashboard renders
    portfolioSummary,  \* what renderPortfolioSummary has put on the page
    \* ---- the server: the user's document and the last request --------
    userPurchases,     \* user.purchases
    userTransactions,  \* user.transactions
    sreq,              \* the last request of POST /buy, POST /sell, GET /wallet
    sstatus,           \* the status of its response
    \* ---- the server: POST /buy handlers between their awaits ----------
    hpc,          \* "idle", "loaded" (findOne has answered), "responded"
    hbody,        \* the body of the handler's request
    hdoc,         \* user.purchases of the document the handler has loaded
    hstatus       \* the status the handler has responded with

fetchVars == <<fpc, endpoint, authHeader, attempt, proxyIdx, netLog, sleeps,
               lastError, result, via, thrown>>

timerVars == <<otherItems, monitoring, timers, inactivityTimer, lastActivity>>

pageVars ==
    <<clock, ticks, token, walletDataCache, walletCacheTimestamp, walletCacheWrittenAt,
      timerVars>>

callVars == <<wpc, wnow, winput, wqueue, wholdings, wret, wreqs, wquotes>>

dashVars == <<walletData, portfolioSummary>>

handlerVars == <<hpc, hbody, hdoc, hstatus>>

serverVars == <<userPurchases, userTransactions, sreq, sstatus, handlerVars>>

vars == <<fetchVars, pageVars, callVars, dashVars, serverVars>>

-----------------------------------------------------------------------------
(* Program constants                                                       *)

MAX_RETRIES == 3
INITIAL_RETRY_DELAY == 1000
CORS_PROXIES == <<"allorigins", "corsproxy", "cors-anywhere">>
CACHE_DURATION == 10000
INACTIVITY_TIMEOUT == 240000

(* Bounds of the model                                                     *)

MaxTransactions == 3

\* Math.random() is drawn from { k / RandDen : k \in 0 .. RandDen - 1 }.
RandDen == 3
\* Live quotes carry a price in 1 .. MaxLivePrice (dollars).
MaxLivePrice == 2

\* The clock advances at most MaxTicks times.
MaxTicks == 4
\* A wallet response carries at most MaxPurchases purchase records.
MaxPurchases == 2

\* 1 dollar (and 1 coin) in model units.
Scale == 100 * 100

RECURSIVE Pow2(_)
Pow2(n) == IF n = 0 THEN 1 ELSE 2 * Pow2(n - 1)

-----------------------------------------------------------------------------
(* mockCryptoPrice                                                         *)

\* The basePrice table, in 1/10000 dollar; any other symbol gives 100.
basePrice(symbol) ==
    CASE symbol = "BTC"  -> 50000 * Scale
      [] symbol = "ETH"  -> 3000 * Scale
      [] symbol = "DOGE" -> 2500
      [] symbol = "XRP"  -> 12000
      [] symbol = "ADA"  -> 25000
      [] symbol = "SOL"  -> 150 * Scale
      [] symbol = "DOT"  -> 30 * Scale
      [] symbol = "LTC"  -> 180 * Scale
      [] OTHER           -> 100 * Scale

\* Mutant: the variance is a tenth of the base price.
mockCryptoPriceWide(symbol, r) ==
    LET variance == basePrice(symbol) \div 10
    IN  basePrice(symbol) + ((r * variance * 2) \div RandDen) - variance

\* basePrice + (Math.random() * variance * 2 - variance), where variance is
\* basePrice * 0.05 (every base price of the table is a multiple of 20 units),
\* with Math.random() = r / RandDen.
mockCryptoPrice(symbol, r) ==
    LET variance == basePrice(symbol) \div 20
    IN  basePrice(symbol) + ((r * variance * 2) \div RandDen) - variance

Randoms == 0 .. (RandDen - 1)

-----------------------------------------------------------------------------
(* fetchWithCORS                                                           *)

Symbols == {"BTC", "DOGE", "XYZ"}

\* The endpoints a call is made with: '/crypto-price?coin=<coin>' and an
\* endpoint that does not contain 'crypto-price' (such as '/user').
Endpoints ==
    {[price |-> TRUE, coin |-> c] : c \in Symbols} \cup {[price |-> FALSE, coin |-> ""]}

\* A value a call resolves with: the names of its fields and its price
\* field (0 when there is none, or when it is not a positive number).
NoResult == [fields |-> {}, price |-> 0]

\* The JSON bodies a 2xx response may carry: the server's quote
\* {success, price} (server.js:476-477) or a JSON body without a usable
\* price, such as {success: false, message}.
JsonBodies ==
    {[fields |-> {"success", "price"}, price |-> p * Scale] : p \in 1 .. MaxLivePrice}
        \cup {[fields |-> {"success", "message"}, price |-> 0]}

\* response.headers.get('Retry-After'): NoHeader for null or '', else the
\* number the header string converts to.
NoHeader == 0 - 1
RetryAfterHeaders == {NoHeader, 0, 500, 5000}

\* What one fetch() of the direct loop can meet.
\*   neterr : fetch rejects (network failure, CORS block)
\*   s429   : status 429, with or without Retry-After
\*   notok  : another non-2xx status; msg is "ratelimit" when the error
\*            message contains 'rate limit' or '429', else "other"
\*   ok     : 2xx with a JSON body
\*   oktext : 2xx with a body that is not JSON
\*   never  : the promise fetch() returns never settles
Outcome(type, retryAfter, msg, body) ==
    [type |-> type, retryAfter |-> retryAfter, msg |-> msg, body |-> body]

DirectOutcomes ==
    {Outcome("neterr", NoHeader, "other", NoResult)}
        \cup {Outcome("s429", h, "other", NoResult) : h \in RetryAfterHeaders}
        \cup {Outcome("notok", NoHeader, m, NoResult) : m \in {"ratelimit", "other"}}
        \cup {Outcome("ok", NoHeader, "other", b) : b \in JsonBodies}
        \cup {Outcome("oktext", NoHeader, "other", NoResult)}
        \cup {Outcome("never", NoHeader, "other", NoResult)}

\* What one proxy fetch can meet; msg is "empty" when the proxy's error
\* body has no message, which makes lastError.message falsy.
ProxyOutcomes ==
    {Outcome("neterr", NoHeader, "msg", NoResult)}
        \cup {Outcome("notok", NoHeader, m, NoResult) : m \in {"msg", "empty"}}
        \cup {Outcome("ok", NoHeader, "msg", b) : b \in JsonBodies}
        \cup {Outcome("oktext", NoHeader, "msg", NoResult)}
        \cup {Outcome("never", NoHeader, "msg", NoResult)}

\* Mutant: the loop bound is off by one (attempt <= MAX_RETRIES).
DirectLoopOffByOne(att) == att <= MAX_RETRIES

\* for (let attempt = 0; attempt < MAX_RETRIES; attempt++)
DirectLoopContinues(att) == att < MAX_RETRIES

\* Mutant: Retry-After caps the exponential delay instead of replacing it.
RateLimitDelayCapped(retryAfter, att) ==
    IF retryAfter # NoHeader /\ retryAfter < INITIAL_RETRY_DELAY * Pow2(att)
       THEN retryAfter
       ELSE INITIAL_RETRY_DELAY * Pow2(att)

\* response.headers.get('Retry-After') || INITIAL_RETRY_DELAY * 2^attempt
RateLimitDelay(retryAfter, att) ==
    IF retryAfter # NoHeader THEN retryAfter ELSE INITIAL_RETRY_DELAY * Pow2(att)

\* const delay = INITIAL_RETRY_DELAY * Math.pow(2, attempt)
ErrorDelay(att) == INITIAL_RETRY_DELAY * Pow2(att)

\* Mutant: every error is retried while attempts remain.
CatchDecisionRetryAll(att, msg) ==
    IF att = MAX_RETRIES - 1 THEN "break" ELSE "retry"

\* The catch block of the direct loop: "break" (go to the proxies) on the
\* last attempt and for an error that is not a rate-limit error, "retry"
\* (sleep, then the next attempt) otherwise.
CatchDecision(att, msg) ==
    IF att = MAX_RETRIES - 1 THEN "break"
    ELSE IF msg = "ratelimit" THEN "retry"
    ELSE "break"

\* Mutant: the proxy requests are sent with the headers of the direct ones.
ProxyHeadersAuthKept(auth) == auth

\* delete proxyHeaders['Authorization']
ProxyHeadersAuth(auth) == FALSE

\* Mutant: a proxy's answer never ends the loop (the return is missing).
ProxyNeverReturns(type) == FALSE

\* A 2xx proxy response with a JSON body returns out of the proxy loop.
ProxyReturns(type) == type = "ok"

\* Mutant: every endpoint is given a mock response.
ReturnsMockAlways(ep) == TRUE

\* Mutant: the test matches no endpoint, so the call throws.
ReturnsMockNever(ep) == FALSE

\* if (endpoint.includes('crypto-price')), after the proxy loop.
ReturnsMock(ep) == ep.price

\* throw new Error(lastError?.message || 'All API connection methods
\* failed. ...'): "generic" stands for the generic message.
ThrownMessage(lastMessage) ==
    IF lastMessage \in {"null", "empty"} THEN "generic" ELSE lastMessage

\* The mock response for a crypto-price endpoint.
MockResponse(coin, r) ==
    [fields |-> {"success", "price", "symbol", "timestamp"},
     price |-> mockCryptoPrice(coin, r)]

InitFetch ==
    /\ fpc = "idle"
    /\ endpoint = [price |-> FALSE, coin |-> ""]
    /\ authHeader = FALSE
    /\ attempt = 0
    /\ proxyIdx = 1
    /\ netLog = <<>>
    /\ sleeps = <<>>
    /\ lastError = "null"
    /\ result = NoResult
    /\ via = "none"
    /\ thrown = "none"

\* fetchWithCORS(endpoint, options) is called.
CallFetch ==
    /\ fpc = "idle"
    /\ \E e \in Endpoints, a \in BOOLEAN :
          /\ endpoint' = e
          /\ authHeader' = a
    /\ fpc' = "direct"
    /\ attempt' = 0
    /\ UNCHANGED <<proxyIdx, netLog, sleeps, lastError, result, via, thrown>>
    /\ UNCHANGED <<pageVars, callVars, dashVars, serverVars>>

\* One iteration of the direct loop (lines 89-139).
DirectFetch ==
    /\ fpc = "direct"
    /\ DirectLoopContinues(attempt)
    /\ \E o \in DirectOutcomes :
          /\ netLog' = Append(netLog, [target |-> 0, auth |-> authHeader,
                                        outcome |-> o.type, msg |-> o.msg])
          /\ CASE o.type = "ok" ->
                    \* return await response.json()
                    /\ fpc' = "returned"
                    /\ result' = o.body
                    /\ via' = "direct"
                    /\ UNCHANGED <<attempt, sleeps>>
               [] o.type = "s429" ->
                    \* sleep(retryAfter); continue
                    /\ sleeps' = Append(sleeps,
                            [attempt |-> attempt, retryAfter |-> o.retryAfter,
                             ms |-> RateLimitDelay(o.retryAfter, attempt)])
                    /\ attempt' = attempt + 1
                    /\ fpc' = IF DirectLoopContinues(attempt + 1)
                                 THEN "direct" ELSE "proxy"
                    /\ UNCHANGED <<result, via>>
               [] o.type = "never" ->
                    \* await fetch(url, ...) does not resume
                    /\ fpc' = "pending"
                    /\ UNCHANGED <<attempt, sleeps, result, via>>
               [] OTHER ->
                    \* the catch block: a rejected fetch, a non-2xx status,
                    \* or response.text() rejecting because response.json()
                    \* has already consumed the body
                    /\ IF CatchDecision(attempt, o.msg) = "retry"
                          THEN /\ sleeps' = Append(sleeps,
                                      [attempt |-> attempt, retryAfter |-> NoHeader,
                                       ms |-> ErrorDelay(attempt)])
                               /\ attempt' = attempt + 1
                               /\ fpc' = IF DirectLoopContinues(attempt + 1)
                                            THEN "direct" ELSE "proxy"
                          ELSE /\ fpc' = "proxy"
                               /\ UNCHANGED <<attempt, sleeps>>
                    /\ UNCHANGED <<result, via>>
    /\ UNCHANGED <<endpoint, authHeader, proxyIdx, lastError, thrown>>
    /\ UNCHANGED <<pageVars, callVars, dashVars, serverVars>>

\* One iteration of the proxy loop (lines 149-194) and, after the last
\* proxy, the end of the function (lines 196-210).
ProxyFetch ==
    /\ fpc = "proxy"
    /\ proxyIdx <= Len(CORS_PROXIES)
    /\ \E o \in ProxyOutcomes, r \in Randoms :
          /\ netLog' = Append(netLog, [target |-> proxyIdx,
                                        auth |-> ProxyHeadersAuth(authHeader),
                                        outcome |-> o.type, msg |-> o.msg])
          /\ IF ProxyReturns(o.type)
                THEN /\ fpc' = "returned"
                     /\ result' = o.body
                     /\ via' = "proxy"
                     /\ UNCHANGED <<proxyIdx, lastError, thrown>>
                ELSE IF o.type = "never"
                THEN \* await fetch(proxyUrl, ...) does not resume
                     /\ fpc' = "pending"
                     /\ UNCHANGED <<proxyIdx, lastError, result, via, thrown>>
                ELSE /\ lastError' = o.msg
                     /\ proxyIdx' = proxyIdx + 1
                     /\ IF proxyIdx < Len(CORS_PROXIES)
                           THEN UNCHANGED <<fpc, result, via, thrown>>
                           ELSE IF ReturnsMock(endpoint)
                                   THEN /\ fpc' = "returned"
                                        /\ result' = MockResponse(endpoint.coin, r)
                                        /\ via' = "mock"
                                        /\ UNCHANGED thrown
                                   ELSE /\ fpc' = "threw"
                                        /\ thrown' = ThrownMessage(o.msg)
                                        /\ UNCHANGED <<result, via>>
    /\ UNCHANGED <<endpoint, authHeader, attempt, sleeps>>
    /\ UNCHANGED <<pageVars, callVars, dashVars, serverVars>>

NextFetch == CallFetch \/ DirectFetch \/ ProxyFetch

-----------------------------------------------------------------------------
(* Properties of fetchWithCORS                                             *)

Finished == fpc \in {"returned", "threw"}

DirectIdx == {i \in DOMAIN netLog : netLog[i].target = 0}
ProxyIdxs == {i \in DOMAIN netLog : netLog[i].target # 0}

\* No request of the call was answered 2xx with a JSON body, and every
\* proxy of the chain has been contacted.
AllSourcesFailed ==
    /\ \A i \in DOMAIN netLog : netLog[i].outcome # "ok"
    /\ DirectIdx # {}
    /\ {netLog[i].target : i \in ProxyIdxs} = 1 .. 3

IsMock(res) == res.fields = {"success", "price", "symbol", "timestamp"}

\* C1: a price request never throws and resolves with a value whose price
\* is greater than 0, whatever the direct requests and the proxies answer.
C1_PriceRequestReturnsPositivePrice ==
    endpoint.price =>
        /\ fpc # "threw"
        /\ fpc = "returned" => result.price > 0

\* C2: a price request for which every direct attempt and every proxy has
\* failed resolves with the mock price instead of throwing, and the mock
\* price is returned in no other case.
C2_SyntheticOnlyWhenAllFailed ==
    /\ (endpoint.price /\ Finished) =>
          /\ fpc = "returned"
          /\ AllSourcesFailed <=> (via = "mock")
          /\ (via = "mock") <=> IsMock(result)
          /\ via = "mock" => result.price > 0
    /\ ~Finished => (via = "none" /\ result = NoResult)
    /\ ~endpoint.price => via # "mock"

C2_Witness ==
    /\ fpc = "returned"
    /\ via = "mock"
    /\ Len(netLog) = 6
    /\ IsMock(result)

\* C3: the value a price request resolves with carries a source field
\* that tells which path (live, cached, synthetic) produced it.
C3_ResultCarriesSourceTag ==
    (endpoint.price /\ fpc = "returned") => "source" \in result.fields

\* C4: proxies are contacted only after the direct attempts are over and
\* none succeeded, in the order of CORS_PROXIES, each at most once, and
\* nothing is contacted after a proxy has succeeded.
C4_ProxyChainOrder ==
    /\ \A i \in ProxyIdxs :
          /\ \A j \in 1 .. (i - 1) : netLog[j].outcome # "ok"
          /\ \A j \in (i + 1) .. Len(netLog) : netLog[j].target # 0
          /\ netLog[i].target = 1 + Cardinality({j \in ProxyIdxs : j < i})
          /\ netLog[i].target <= 3
    /\ ProxyIdxs # {} => fpc # "direct"
    /\ \A i \in DOMAIN netLog :
          netLog[i].outcome = "ok" => (i = Len(netLog) /\ fpc = "returned")

C4_Witness ==
    /\ fpc = "returned"
    /\ via = "proxy"
    /\ Len(netLog) = 4
    /\ netLog[4].target = 2
    /\ netLog[3].target = 1

\* C5: a call makes at most 3 direct requests; a 429 answer is retried
\* while attempts remain, each retry uses up one of the 3 attempts, and
\* after the third the call moves to the proxy chain.
C5_AtMostThreeDirect ==
    /\ Cardinality(DirectIdx) <= 3
    /\ \A i \in DirectIdx :
          netLog[i].outcome = "s429" =>
              /\ attempt >= i
              /\ (i < 3 /\ Len(netLog) = i) => fpc = "direct"
              /\ (i < 3 /\ Len(netLog) > i) => netLog[i + 1].target = 0
              /\ (i = 3 /\ Len(netLog) = i) => (fpc = "proxy" /\ proxyIdx = 1)
              /\ (i = 3 /\ Len(netLog) > i) => netLog[i + 1].target = 1

C5_Witness ==
    /\ fpc = "proxy"
    /\ Len(netLog) = 3
    /\ \A i \in 1 .. 3 : netLog[i].target = 0 /\ netLog[i].outcome = "s429"

Min(a, b) == IF a < b THEN a ELSE b

\* C6 (as stated): the wait before a rate-limited retry is
\* 1000 * 2^attempt ms, and with a Retry-After value it is capped by that
\* value.
C6_WaitCappedExponential ==
    \A i \in DOMAIN sleeps :
        sleeps[i].ms =
            IF sleeps[i].retryAfter = NoHeader
               THEN 1000 * Pow2(i - 1)
               ELSE Min(1000 * Pow2(i - 1), sleeps[i].retryAfter)

\* C6 (amended): the wait before a rate-limited retry is 1000 ms after the
\* first attempt and doubles with each further attempt when the answer
\* carries no Retry-After value; a Retry-After value replaces that wait
\* (it is used as the number of milliseconds), whether smaller or larger.
C6_WaitIsRetryAfterOrExponential ==
    \A i \in DOMAIN sleeps :
        /\ sleeps[i].attempt = i - 1
        /\ sleeps[i].ms =
              IF sleeps[i].retryAfter = NoHeader
                 THEN 1000 * Pow2(i - 1)
                 ELSE sleeps[i].retryAfter

C6_Witness ==
    /\ Len(sleeps) = 3
    /\ sleeps[1].ms = 1000
    /\ sleeps[2].retryAfter = 5000 /\ sleeps[2].ms = 5000
    /\ sleeps[3].ms = 4000

\* A direct request that failed other than by a 429 answer: a rejected
\* fetch (network error, CORS block) or a non-2xx status such as a 5xx.
TransientFailure(e) == e.target = 0 /\ e.outcome \in {"neterr", "notok"}

\* C7 (as stated): a transient direct failure is first retried on the
\* direct source, then routed to the proxy chain, and a price request
\* never surfaces it as an error.
C7_TransientFailureRetriedLocally ==
    /\ \A i \in DOMAIN netLog :
          (TransientFailure(netLog[i]) /\ i < 3 /\ Len(netLog) > i) =>
              netLog[i + 1].target = 0
    /\ endpoint.price => fpc # "threw"

\* C7 (amended): a transient direct failure is retried on the direct
\* source only when its error message mentions a rate limit ('rate limit'
\* or '429') and attempts remain; any other transient failure sends the
\* call to the first proxy at once.  A price request never surfaces it as
\* an error.
C7_TransientFailureGoesToProxies ==
    /\ \A i \in DOMAIN netLog :
          TransientFailure(netLog[i]) =>
              /\ Len(netLog) = i => fpc = (IF netLog[i].msg = "ratelimit" /\ i < 3
                                             THEN "direct" ELSE "proxy")
              /\ Len(netLog) > i =>
                    netLog[i + 1].target = (IF netLog[i].msg = "ratelimit" /\ i < 3
                                               THEN 0 ELSE 1)
    /\ endpoint.price => fpc # "threw"

C7_Witness ==
    /\ endpoint.price
    /\ fpc = "returned"
    /\ Len(netLog) = 2
    /\ netLog[1].target = 0 /\ netLog[1].outcome = "neterr"
    /\ netLog[2].target = 1

-----------------------------------------------------------------------------
(* getWalletData: numbers                                                  *)

\* Number.prototype.toFixed: n / d rounded to the nearest integer, halves
\* away from zero.
ToFixed(n, d) ==
    IF n >= 0 THEN (n + (d \div 2)) \div d
    ELSE 0 - (((0 - n) + (d \div 2)) \div d)

RECURSIVE SumSeq(_)
SumSeq(q) == IF q = <<>> THEN 0 ELSE Head(q) + SumSeq(Tail(q))

RECURSIVE Gcd(_, _)
Gcd(a, b) == IF b = 0 THEN a ELSE Gcd(b, a % b)

Abs(n) == IF n < 0 THEN 0 - n ELSE n

\* The values a double takes that are not numbers.
NaN == [kind |-> "NaN", num |-> 0, den |-> 0]
Infinity == [kind |-> "Infinity", num |-> 1, den |-> 0]
MinusInfinity == [kind |-> "Infinity", num |-> 0 - 1, den |-> 0]

\* The double n / d, kept exactly as a fraction in lowest terms: 0 / 0 is
\* NaN and x / 0 is an infinity of x's sign.
Quotient(n, d) ==
    IF d = 0
       THEN (IF n = 0 THEN NaN ELSE IF n > 0 THEN Infinity ELSE MinusInfinity)
       ELSE LET g == Gcd(Abs(n), Abs(d))
                s == IF d < 0 THEN 0 - 1 ELSE 1
            IN  [kind |-> "finite", num |-> s * (n \div g), den |-> s * (d \div g)]

IsFinite(x) == x.kind = "finite"

\* x * y and x + y of doubles: NaN spreads, 0 * Infinity and
\* Infinity - Infinity are NaN.
Times(x, y) ==
    IF IsFinite(x) /\ IsFinite(y)
       THEN LET g1 == Gcd(Abs(x.num), y.den)
                g2 == Gcd(Abs(y.num), x.den)
            IN  Quotient((x.num \div g1) * (y.num \div g2),
                         (x.den \div g2) * (y.den \div g1))
       ELSE Quotient(x.num * y.num, 0)

Plus(x, y) ==
    IF IsFinite(x) /\ IsFinite(y)
       THEN LET g == Gcd(x.den, y.den)
            IN  Quotient(x.num * (y.den \div g) + y.num * (x.den \div g),
                         (x.den \div g) * y.den)
       ELSE IF x.kind = "NaN" \/ y.kind = "NaN" THEN NaN
       ELSE IF IsFinite(x) THEN y
       ELSE IF IsFinite(y) \/ x = y THEN x
       ELSE NaN

RECURSIVE SumNumbers(_)
SumNumbers(q) ==
    IF q = <<>> THEN Quotient(0, 1) ELSE Plus(Head(q), SumNumbers(Tail(q)))

-----------------------------------------------------------------------------
(* getWalletData: grouping the purchases by coin (lines 265-299)           *)

WalletCoins == {"Dogecoin", "Ripple"}

\* coinSymbols[coin] || coin.substring(0, 3).toUpperCase()
coinSymbols(coin) ==
    CASE coin = "Bitcoin"  -> "BTC"
      [] coin = "Ethereum" -> "ETH"
      [] coin = "Dogecoin" -> "DOGE"
      [] coin = "Ripple"   -> "XRP"
      [] coin = "Cardano"  -> "ADA"
      [] coin = "Solana"   -> "SOL"
      [] coin = "Polkadot" -> "DOT"
      [] coin = "Litecoin" -> "LTC"
      [] coin = "Pepe"     -> "PEP"
      [] OTHER             -> coin

\* A purchase record of the wallet response.  A missing quantity or
\* purchasePrice is 0 here, as parseFloat(x || 0) makes it.
Purchase(coin, quantity, purchasePrice) ==
    [coin |-> coin, quantity |-> quantity, purchasePrice |-> purchasePrice]

\* coinHoldings[coin] = { coin, symbol, quantity: 0, totalInvested: 0 }
NewCoinHolding(coin) ==
    [coin |-> coin, symbol |-> coinSymbols(coin), quantity |-> 0, totalInvested |-> 0]

\* Mutant: a purchase record without a price is left out of its group.
AddPurchaseWhenPriced(h, pu) ==
    IF pu.purchasePrice = 0 THEN h
    ELSE [h EXCEPT !.quantity = @ + pu.quantity,
                   !.totalInvested = @ + pu.quantity * pu.purchasePrice]

\* quantity += parseFloat(quantity || 0);
\* totalInvested += parseFloat(quantity || 0) * parseFloat(purchasePrice || 0)
AddPurchase(h, pu) ==
    [h EXCEPT !.quantity = @ + pu.quantity,
              !.totalInvested = @ + pu.quantity * pu.purchasePrice]

\* Mutant: every purchase record opens a coin group of its own.
GroupPurchasesPerRecord(purchases, coinHoldings) ==
    coinHoldings \o
        [i \in DOMAIN purchases |-> AddPurchase(NewCoinHolding(purchases[i].coin), purchases[i])]

\* The loop over the purchases: coinHoldings in the order in which the
\* coins first appear (the order the for-in loop visits them; the coins
\* are names, not array indices).
RECURSIVE GroupPurchases(_, _)
GroupPurchases(purchases, coinHoldings) ==
    IF purchases = <<>> THEN coinHoldings
    ELSE LET pu == Head(purchases)
             at == {i \in DOMAIN coinHoldings : coinHoldings[i].coin = pu.coin}
         IN  IF at = {}
                THEN GroupPurchases(Tail(purchases),
                        Append(coinHoldings, AddPurchase(NewCoinHolding(pu.coin), pu)))
                ELSE GroupPurchases(Tail(purchases),
                        [i \in DOMAIN coinHoldings |->
                            IF i \in at THEN AddPurchase(coinHoldings[i], pu)
                            ELSE coinHoldings[i]])

-----------------------------------------------------------------------------
(* getWalletData: one holding (lines 305-372)                              *)

\* What the price request of one coin can meet: "throw" (fetch or json()
\* rejects) or a JSON body with its success flag, its price (0 when the
\* price is missing, zero or not a number) and its previousPrice (0 when
\* the body has none, as the body of GET /crypto-price has none).
PriceOutcomes ==
    {[type |-> "throw", success |-> FALSE, price |-> 0, previousPrice |-> 0],
     [type |-> "json", success |-> FALSE, price |-> 0, previousPrice |-> 0],
     [type |-> "json", success |-> TRUE, price |-> 0, previousPrice |-> 0]}
        \cup {[type |-> "json", success |-> TRUE, price |-> p * Scale,
               previousPrice |-> pp * Scale] :
                  p \in 1 .. MaxLivePrice, pp \in 0 .. 1}

\* Mutant: no mock price stands in for a failed lookup.
CurrentPriceAsFetched(o, symbol, r) ==
    IF o.type = "json" /\ o.success THEN o.price ELSE 0

\* currentPrice after lines 309-328: the price of a successful answer,
\* else mockCryptoPrice(symbol).
CurrentPrice(o, symbol, r) ==
    LET fetched == IF o.type = "json" /\ o.success THEN o.price ELSE 0
    IN  IF fetched = 0 THEN mockCryptoPrice(symbol, r) ELSE fetched

\* coin.substring(0, 3), the value of the coin parameter of the price
\* request (line 314).
PriceKey(coin) ==
    CASE coin = "Bitcoin"  -> "Bit"
      [] coin = "Ethereum" -> "Eth"
      [] coin = "Dogecoin" -> "Dog"
      [] coin = "Ripple"   -> "Rip"
      [] coin = "Cardano"  -> "Car"
      [] coin = "Solana"   -> "Sol"
      [] coin = "Polkadot" -> "Pol"
      [] coin = "Litecoin" -> "Lit"
      [] coin = "Pepe"     -> "Pep"
      [] OTHER             -> coin

\* A price request as answered: the key it asked for, and the price and
\* the previousPrice lines 316-319 read from the answer (0 when the request
\* threw, when success is not set and when the field is not there).
Quote(key, o) ==
    LET fetched == IF o.type = "json" /\ o.success THEN o.price ELSE 0
    IN  [key |-> key, price |-> fetched,
         previousPrice |-> IF fetched = 0 THEN 0 ELSE o.previousPrice]

\* The values Math.random() can give where lines 326-327 call it; it is
\* not called when the answer has a price.
MockDraws(o) ==
    IF o.type = "json" /\ o.success /\ o.price # 0 THEN {0} ELSE Randoms

\* previousPrice after lines 309-328: of a successful answer, its
\* previousPrice or 0.95 times its price; else the mock price times
\* 0.95 + Math.random() * 0.1.
PreviousPrice(o, currentPrice, r) ==
    LET fetched == IF o.type = "json" /\ o.success THEN o.price ELSE 0
    IN  IF fetched = 0
           THEN Quotient(currentPrice * (19 * RandDen + 2 * r), 20 * RandDen)
           ELSE IF o.previousPrice = 0 THEN Quotient(currentPrice * 19, 20)
                ELSE Quotient(o.previousPrice, 1)

\* priceChange24h = ((currentPrice - previousPrice) / previousPrice) * 100
PriceChange24h(currentPrice, previousPrice) ==
    LET change == Quotient(currentPrice * previousPrice.den - previousPrice.num,
                           previousPrice.num)
    IN  IF IsFinite(change) THEN Times(change, Quotient(100, 1)) ELSE change

\* roi = ((currentPrice - avgBuyPrice) / avgBuyPrice) * 100, where avgBuyPrice
\* is totalInvested / quantity; held as a fraction of one, not in percent.
Roi(currentPrice, totalInvested, quantity) ==
    Quotient(quantity * currentPrice - totalInvested, totalInvested)

\* x.toFixed(2) of a double.
ToFixed2(x) ==
    IF IsFinite(x) THEN Quotient(ToFixed(x.num * 100, x.den), 100) ELSE x

\* const quantity = parseFloat(holding.quantity) || 0.0001
HoldingQuantity(h) == IF h.quantity = 0 THEN 1 ELSE h.quantity

\* parseFloat(holding.totalInvested) || (quantity * currentPrice * 0.95)
HoldingInvested(h, quantity, currentPrice) ==
    IF h.totalInvested = 0
       THEN (quantity * currentPrice) - ((quantity * currentPrice) \div 20)
       ELSE h.totalInvested

\* The object pushed on holdings (line 358).  quantity keeps 4 decimals;
\* avgBuyPrice, currentPrice, totalPrice and profitLoss are in cents;
\* change24h and changeValue are in percent; roi is a fraction of one and
\* is held unrounded.
Holding(h, currentPrice, previousPrice) ==
    LET quantity == HoldingQuantity(h)
        totalValue == quantity * currentPrice
        totalInvested == HoldingInvested(h, quantity, currentPrice)
        profitLoss == totalValue - totalInvested
        priceChange24h == PriceChange24h(currentPrice, previousPrice)
    IN  [coin |-> h.coin,
         symbol |-> h.symbol,
         quantity |-> quantity,
         avgBuyPrice |-> ToFixed(totalInvested, quantity * 100),
         currentPrice |-> ToFixed(currentPrice, 100),
         totalPrice |-> ToFixed(totalValue, 100 * Scale),
         change24h |-> ToFixed2(priceChange24h),
         roi |-> Roi(currentPrice, totalInvested, quantity),
         profitLoss |-> ToFixed(profitLoss, 100 * Scale),
         changeValue |-> priceChange24h]

-----------------------------------------------------------------------------
(* getWalletData: the summary and the cache (lines 217-222, 461-516)       *)

WalletFields ==
    {"holdings", "totalBalance", "totalInvested", "totalProfitLoss", "portfolioROI",
     "portfolio24hChange", "totalAssets", "totalTransactions", "avgTradeSize",
     "successRate"}

\* A field the object does not have is 0 here and is not in fields.
WalletData(kind, fields, holdings, totalBalance, totalInvested, totalProfitLoss, portfolioROI, portfolio24hChange) ==
    [kind |-> kind, fields |-> fields, holdings |-> holdings,
     totalAssets |-> IF "totalAssets" \in fields THEN Len(holdings) ELSE 0,
     totalBalance |-> totalBalance, totalInvested |-> totalInvested,
     totalProfitLoss |-> totalProfitLoss, portfolioROI |-> portfolioROI,
     portfolio24hChange |-> portfolio24hChange]

\* walletDataCache = null
NullData == WalletData("null", {}, <<>>, 0, 0, 0, Quotient(0, 1), Quotient(0, 1))

\* portfolioROI = (totalProfitLoss / totalInvested) * 100, held as a fraction
\* of one, not in percent.
PortfolioROI(totalProfitLoss, totalInvested) == Quotient(totalProfitLoss, totalInvested)

\* The reduce of lines 468-472 over (totalBalance || 1), times 100, and the
\* isNaN guard of line 475; in percent.
Portfolio24hChange(holdings, totalBalance) ==
    LET acc == SumNumbers([i \in DOMAIN holdings |->
                   Times(Quotient(holdings[i].totalPrice, 1),
                         Times(holdings[i].changeValue, Quotient(1, 100)))])
        portfolio24hChange ==
            Times(Times(acc, Quotient(1, IF totalBalance = 0 THEN 1 ELSE totalBalance)),
                  Quotient(100, 1))
    IN  IF portfolio24hChange.kind = "NaN" THEN Quotient(0, 1) ELSE portfolio24hChange

\* Mutant: the sum runs over the prices, not over the values.
TotalBalanceOfPrices(holdings) ==
    SumSeq([i \in DOMAIN holdings |-> holdings[i].currentPrice])

\* holdings.reduce((acc, h) => acc + parseFloat(h.totalPrice), 0)
TotalBalance(holdings) ==
    SumSeq([i \in DOMAIN holdings |-> holdings[i].totalPrice])

\* formattedWalletData.wallet: totalBalance in cents, totalInvested and
\* totalProfitLoss in 1/1000000 dollar.
FormattedWalletData(holdings) ==
    LET totalBalance == TotalBalance(holdings)
        totalInvested ==
            SumSeq([i \in DOMAIN holdings |->
                        holdings[i].quantity * holdings[i].avgBuyPrice])
        totalProfitLoss == totalBalance * Scale - totalInvested
    IN  WalletData("wallet", WalletFields, holdings, totalBalance, totalInvested,
                   totalProfitLoss, PortfolioROI(totalProfitLoss, totalInvested),
                   Portfolio24hChange(holdings, totalBalance))

\* mockWalletData of the catch block (lines 521-529), on a host that is
\* neither localhost nor cryptopro-1.
MockWalletData ==
    WalletData("fallback", {"holdings", "totalBalance"}, <<>>, 0, 0, 0,
               Quotient(0, 1), Quotient(0, 1))

-----------------------------------------------------------------------------
(* server.js: POST /buy, POST /sell, GET /wallet (lines 287-436)           *)

\* The request a route has handled: its route and its body; a field the
\* body does not have is "" or 0.  quantity is in 1/10000 coin, totalPrice
\* in 1/10000 dollar.
Request(route, coin, quantity, totalPrice) ==
    [route |-> route, coin |-> coin, quantity |-> quantity, totalPrice |-> totalPrice]

NoRequest == Request("none", "", 0, 0)

Body(coin, quantity, totalPrice) ==
    [coin |-> coin, quantity |-> quantity, totalPrice |-> totalPrice]

\* Bodies that pass the validation of line 290, and all bodies.
ValidBodies ==
    {Body("Dogecoin", q, tp) : q \in {Scale \div 2, Scale}, tp \in {Scale, 2 * Scale}}
        \cup {Body("Ripple", Scale, Scale)}

Bodies ==
    ValidBodies \cup {Body("", Scale, Scale), Body("Dogecoin", 0, Scale),
                      Body("Dogecoin", Scale, 0), Body("Dogecoin", 0 - Scale, Scale),
                      Body("Dogecoin", Scale, 0 - Scale)}

\* Mutant: only missing and zero fields are refused.
BodyInvalidWhenFalsy(b) == b.coin = "" \/ b.quantity = 0 \/ b.totalPrice = 0

\* !coin || !quantity || quantity <= 0 || !totalPrice || totalPrice <= 0
BodyInvalid(b) ==
    b.coin = "" \/ b.quantity = 0 \/ b.quantity <= 0 \/ b.totalPrice = 0 \/ b.totalPrice <= 0

\* user.purchases.find(p => p.coin === coin): the index of the first entry
\* of the coin, 0 when there is none.
ExistingPurchase(ps, coin) ==
    LET at == {i \in DOMAIN ps : ps[i].coin = coin}
    IN  IF at = {} THEN 0 ELSE CHOOSE i \in at : \A j \in at : i <= j

\* Mutant: every buy pushes an entry.
BuyPurchasesAlwaysPush(ps, b) == Append(ps, Body(b.coin, b.quantity, b.totalPrice))

\* Lines 301-315: the purchases after a buy.
BuyPurchases(ps, b) ==
    LET i == ExistingPurchase(ps, b.coin)
    IN  IF i = 0 THEN Append(ps, Body(b.coin, b.quantity, b.totalPrice))
        ELSE [ps EXCEPT ![i].quantity = @ + b.quantity,
                        ![i].totalPrice = @ + b.totalPrice]

\* Mutant: only a coin that is not held at all is refused.
InsufficientOnlyWhenAbsent(ps, b) == ExistingPurchase(ps, b.coin) = 0

\* !existingPurchase || existingPurchase.quantity < quantity
Insufficient(ps, b) ==
    LET i == ExistingPurchase(ps, b.coin)
    IN  i = 0 \/ ps[i].quantity < b.quantity

\* Mutant: a sale leaves the quantity as it is.
SellPurchasesKeepQuantity(ps, b) ==
    LET i == ExistingPurchase(ps, b.coin)
    IN  [ps EXCEPT ![i].totalPrice = @ - b.totalPrice]

\* Mutant: the entry of a coin sold out stays, with quantity 0.
SellPurchasesKeepEntry(ps, b) ==
    LET i == ExistingPurchase(ps, b.coin)
    IN  [ps EXCEPT ![i].quantity = @ - b.quantity,
                   ![i].totalPrice = @ - b.totalPrice]

\* Lines 374-381: the purchases after a sale of a sufficient holding.
SellPurchases(ps, b) ==
    LET i == ExistingPurchase(ps, b.coin)
        updated == [ps EXCEPT ![i].quantity = @ - b.quantity,
                              ![i].totalPrice = @ - b.totalPrice]
    IN  IF updated[i].quantity <= 0
           THEN SelectSeq(updated, LAMBDA pu : pu.coin # b.coin)
           ELSE updated

\* Mutant: the transaction records the running total of the coin.
TransactionOfTotal(type, b) ==
    [type |-> type, coin |-> b.coin, quantity |-> b.quantity,
     totalPrice |-> b.totalPrice + b.totalPrice]

\* The transaction pushed at lines 325-331 and 391-397.
Transaction(type, b) ==
    [type |-> type, coin |-> b.coin, quantity |-> b.quantity,
     totalPrice |-> b.totalPrice]

\* The requests of the user that the server may be handling at once.
Handlers == {"h1", "h2"}

InitServer ==
    /\ userPurchases = <<>>
    /\ userTransactions = <<>>
    /\ sreq = NoRequest
    /\ sstatus = 0
    /\ hpc = [h \in Handlers |-> "idle"]
    /\ hbody = [h \in Handlers |-> Body("", 0, 0)]
    /\ hdoc = [h \in Handlers |-> <<>>]
    /\ hstatus = [h \in Handlers |-> 0]

\* Whether user.save() can succeed: not once the ledger has MaxTransactions
\* entries.
Saves == IF Len(userTransactions) < MaxTransactions THEN BOOLEAN ELSE {FALSE}

\* POST /buy with one of the bodies.
Buy(bodies) ==
    /\ \E b \in bodies, saved \in Saves :
          /\ sreq' = Request("buy", b.coin, b.quantity, b.totalPrice)
          /\ IF BodyInvalid(b)
                THEN /\ sstatus' = 400
                     /\ UNCHANGED <<userPurchases, userTransactions>>
                ELSE IF ~saved
                        THEN /\ sstatus' = 500
                             /\ UNCHANGED <<userPurchases, userTransactions>>
                        ELSE /\ userPurchases' = BuyPurchases(userPurchases, b)
                             /\ userTransactions' =
                                    Append(userTransactions, Transaction("Buy", b))
                             /\ sstatus' = 200
    /\ UNCHANGED <<fetchVars, pageVars, callVars, dashVars, handlerVars>>

\* POST /sell with one of the bodies.
Sell(bodies) ==
    /\ \E b \in bodies, saved \in Saves :
          /\ sreq' = Request("sell", b.coin, b.quantity, b.totalPrice)
          /\ IF BodyInvalid(b) \/ Insufficient(userPurchases, b)
                THEN /\ sstatus' = 400
                     /\ UNCHANGED <<userPurchases, userTransactions>>
                ELSE IF ~saved
                        THEN /\ sstatus' = 500
                             /\ UNCHANGED <<userPurchases, userTransactions>>
                        ELSE /\ userPurchases' = SellPurchases(userPurchases, b)
                             /\ userTransactions' =
                                    Append(userTransactions, Transaction("Sell", b))
                             /\ sstatus' = 200
    /\ UNCHANGED <<fetchVars, pageVars, callVars, dashVars, handlerVars>>

\* GET /wallet answers with user.purchases and user.transactions.
Wallet ==
    /\ sreq' = Request("wallet", "", 0, 0)
    /\ sstatus' = 200
    /\ UNCHANGED <<userPurchases, userTransactions>>
    /\ UNCHANGED <<fetchVars, pageVars, callVars, dashVars, handlerVars>>

\* user.save() of a document loaded as doc and changed by a buy, when
\* the stored purchases are `stored`: the document sends what the handler
\* changed, the fields it set on the entry it found (as values) or the
\* entry it pushed, and not the purchases as a whole.
SaveBuy(stored, doc, b) ==
    LET i == ExistingPurchase(doc, b.coin)
    IN  IF i = 0 THEN Append(stored, Body(b.coin, b.quantity, b.totalPrice))
        ELSE IF i \in DOMAIN stored
                THEN [stored EXCEPT ![i].quantity = doc[i].quantity + b.quantity,
                                    ![i].totalPrice = doc[i].totalPrice + b.totalPrice]
                ELSE stored

\* POST /buy up to the answer of User.findOne (lines 287-298).
BuyReceived(h, bodies) ==
    /\ hpc[h] = "idle"
    /\ \E b \in bodies :
          /\ hbody' = [hbody EXCEPT ![h] = b]
          /\ IF BodyInvalid(b)
                THEN /\ hpc' = [hpc EXCEPT ![h] = "responded"]
                     /\ hstatus' = [hstatus EXCEPT ![h] = 400]
                     /\ UNCHANGED hdoc
                ELSE /\ hpc' = [hpc EXCEPT ![h] = "loaded"]
                     /\ hdoc' = [hdoc EXCEPT ![h] = userPurchases]
                     /\ UNCHANGED hstatus
    /\ UNCHANGED <<userPurchases, userTransactions, sreq, sstatus>>
    /\ UNCHANGED <<fetchVars, pageVars, callVars, dashVars>>

\* POST /buy from the answer of User.findOne to the response (lines
\* 300-349).
BuySaved(h) ==
    /\ hpc[h] = "loaded"
    /\ \E saved \in Saves :
          IF saved
             THEN /\ userPurchases' = SaveBuy(userPurchases, hdoc[h], hbody[h])
                  /\ userTransactions' =
                         Append(userTransactions, Transaction("Buy", hbody[h]))
                  /\ hstatus' = [hstatus EXCEPT ![h] = 200]
             ELSE /\ hstatus' = [hstatus EXCEPT ![h] = 500]
                  /\ UNCHANGED <<userPurchases, userTransactions>>
    /\ hpc' = [hpc EXCEPT ![h] = "responded"]
    /\ UNCHANGED <<hbody, hdoc, sreq, sstatus>>
    /\ UNCHANGED <<fetchVars, pageVars, callVars, dashVars>>

\* The client has the response; it may send another request.
BuyAnswered(h) ==
    /\ hpc[h] = "responded"
    /\ hpc' = [hpc EXCEPT ![h] = "idle"]
    /\ hbody' = [hbody EXCEPT ![h] = Body("", 0, 0)]
    /\ hdoc' = [hdoc EXCEPT ![h] = <<>>]
    /\ hstatus' = [hstatus EXCEPT ![h] = 0]
    /\ UNCHANGED <<userPurchases, userTransactions, sreq, sstatus>>
    /\ UNCHANGED <<fetchVars, pageVars, callVars, dashVars>>

\* The wallet array of the answer of GET /wallet as getWalletData reads it:
\* coin and quantity; the records have no purchasePrice.
WalletBody(ps) == [i \in DOMAIN ps |-> Purchase(ps[i].coin, ps[i].quantity, 0)]

-----------------------------------------------------------------------------
(* dashboard.js: getWalletData and renderPortfolioSummary (lines 187-337)  *)

\* parseFloat(holding.dailyChangeValue || 0): 0 for a holding that has no
\* such field.
DailyChangeValue(holding) ==
    IF "dailyChangeValue" \in DOMAIN holding THEN holding["dailyChangeValue"]
    ELSE Quotient(0, 1)

\* weightedDailyChange (lines 321-334), in percent.
WeightedDailyChange(holdings) ==
    LET totalPortfolioValue ==
            SumSeq([i \in DOMAIN holdings |-> holdings[i].totalPrice])
    IN  IF totalPortfolioValue > 0
           THEN SumNumbers([i \in DOMAIN holdings |->
                    Times(DailyChangeValue(holdings[i]),
                          Quotient(holdings[i].totalPrice, totalPortfolioValue))])
           ELSE Quotient(0, 1)

\* What the summary card shows: "none" before the first rendering, "empty"
\* for the empty-portfolio notice, "alert" for the failure notice.
Summary(kind, totalValue, weightedDailyChange) ==
    [kind |-> kind, totalValue |-> totalValue,
     weightedDailyChange |-> weightedDailyChange]

NoSummary == Summary("none", 0, Quotient(0, 1))

renderPortfolioSummary(holdings) ==
    IF holdings = <<>> THEN Summary("empty", 0, Quotient(0, 1))
    ELSE Summary("summary",
                 SumSeq([i \in DOMAIN holdings |-> holdings[i].totalPrice]),
                 WeightedDailyChange(holdings))

InitDashboard ==
    /\ walletData = <<>>
    /\ portfolioSummary = NoSummary

-----------------------------------------------------------------------------
(* getWalletData: the cache, the token and the steps of a call             *)

\* Mutant: the comparison is inverted.
CacheValidInverted(cache, timestamp, now) ==
    cache.kind # "null" /\ now - timestamp > CACHE_DURATION

\* Mutant: the age of the entry is not looked at.
CacheValidForever(cache, timestamp, now) == cache.kind # "null"

\* if (walletDataCache && (now - walletCacheTimestamp < CACHE_DURATION))
CacheValid(cache, timestamp, now) ==
    cache.kind # "null" /\ now - timestamp < CACHE_DURATION

\* if (!token) throw new Error('Authentication token not found')
TokenMissing(tok) == ~tok

AllCalls == {"a", "b"}

InitPage ==
    /\ clock = 0
    /\ ticks = 0
    /\ token \in BOOLEAN
    /\ walletDataCache = NullData
    /\ walletCacheTimestamp = 0
    /\ walletCacheWrittenAt = 0

InitTimer ==
    /\ otherItems = IF token THEN {"username", "isAdmin"} ELSE {}
    /\ monitoring = FALSE
    /\ timers = {}
    /\ inactivityTimer = 0
    /\ lastActivity = 0

InitCalls ==
    /\ wpc = [c \in AllCalls |-> "idle"]
    /\ wnow = [c \in AllCalls |-> 0]
    /\ winput = [c \in AllCalls |-> <<>>]
    /\ wqueue = [c \in AllCalls |-> <<>>]
    /\ wholdings = [c \in AllCalls |-> <<>>]
    /\ wret = [c \in AllCalls |-> NullData]
    /\ wreqs = [c \in AllCalls |-> 0]
    /\ wquotes = [c \in AllCalls |-> <<>>]

Init == InitFetch /\ InitPage /\ InitTimer /\ InitCalls /\ InitDashboard /\ InitServer

\* A timeout of the page is due.
TimerDue == \E t \in timers : t.due <= clock

\* Time passes, by one of the durations ds; a timeout that is due runs
\* first.
Tick(ds) ==
    /\ ticks < MaxTicks
    /\ ~TimerDue
    /\ \E d \in ds : clock' = clock + d
    /\ ticks' = ticks + 1
    /\ UNCHANGED <<token, walletDataCache, walletCacheTimestamp, walletCacheWrittenAt>>
    /\ UNCHANGED timerVars
    /\ UNCHANGED <<fetchVars, callVars, dashVars, serverVars>>

\* loginUser stores the token of a successful login (line 694).
StoreToken ==
    /\ ~token
    /\ token' = TRUE
    /\ UNCHANGED <<clock, ticks, walletDataCache, walletCacheTimestamp, walletCacheWrittenAt>>
    /\ UNCHANGED timerVars
    /\ UNCHANGED <<fetchVars, callVars, dashVars, serverVars>>

\* The token is removed while the page stays: logoutDueToInactivity (line
\* 862) in another page of the origin, or in this page before it is left.
RemoveToken ==
    /\ token
    /\ token' = FALSE
    /\ UNCHANGED <<clock, ticks, walletDataCache, walletCacheTimestamp, walletCacheWrittenAt>>
    /\ UNCHANGED timerVars
    /\ UNCHANGED <<fetchVars, callVars, dashVars, serverVars>>

\* Mutant: the timestamp of the cache only moves forward.
CacheTimestampLatest(timestamp, now) == IF now > timestamp THEN now ELSE timestamp

\* walletCacheTimestamp = now, where now is the Date.now() of line 219.
CacheTimestamp(timestamp, now) == now

\* Mutant: the catch block stores the object it returns.
CacheAfterCatchStored(cache, returned) == returned

\* The catch block (lines 517-588) assigns nothing to walletDataCache.
CacheAfterCatch(cache, returned) == cache

\* Mutant: clearTimeout leaves the timeout pending.
ClearTimeoutKeeps(pending, id) == pending

\* clearTimeout(id): the timeout of that handle, if pending, is cancelled.
ClearTimeout(pending, id) == {t \in pending : t.id # id}

\* The handle setTimeout returns: a number above 0 that no pending timeout
\* has.
NewTimerId(pending) ==
    CHOOSE n \in 1 .. (Cardinality(pending) + 1) : \A t \in pending : t.id # n

\* resetInactivityTimer (lines 854-857).
resetInactivityTimer ==
    LET cleared == ClearTimeout(timers, inactivityTimer)
        id == NewTimerId(cleared)
    IN  /\ timers' = cleared \cup {[id |-> id, due |-> clock + INACTIVITY_TIMEOUT]}
        /\ inactivityTimer' = id
        /\ lastActivity' = clock

\* DOMContentLoaded (lines 887-892): the monitoring is set up when a token
\* is stored (setupInactivityMonitoring, lines 874-884).
PageLoaded ==
    /\ ~monitoring
    /\ token
    /\ monitoring' = TRUE
    /\ resetInactivityTimer
    /\ UNCHANGED <<clock, ticks, token, otherItems>>
    /\ UNCHANGED <<walletDataCache, walletCacheTimestamp, walletCacheWrittenAt>>
    /\ UNCHANGED <<fetchVars, callVars, dashVars, serverVars>>

\* A mousedown, mousemove, keypress, scroll or touchstart event reaches the
\* document; a timeout that is due runs first.
Activity ==
    /\ monitoring
    /\ ~TimerDue
    /\ resetInactivityTimer
    /\ UNCHANGED <<clock, ticks, token, otherItems, monitoring>>
    /\ UNCHANGED <<walletDataCache, walletCacheTimestamp, walletCacheWrittenAt>>
    /\ UNCHANGED <<fetchVars, callVars, dashVars, serverVars>>

\* A timeout runs logoutDueToInactivity (lines 860-871): the three items
\* are removed and the page is left for /login.html, which ends the
\* pending timeouts, the listeners and the cache of the page.
LogoutDueToInactivity ==
    /\ \E t \in timers : t.due <= clock
    /\ token' = FALSE
    /\ otherItems' = {}
    /\ monitoring' = FALSE
    /\ timers' = {}
    /\ inactivityTimer' = 0
    /\ walletDataCache' = NullData
    /\ walletCacheTimestamp' = 0
    /\ UNCHANGED <<clock, ticks, lastActivity, walletCacheWrittenAt>>
    /\ UNCHANGED <<fetchVars, callVars, dashVars, serverVars>>

\* The user logs in again on the login page and comes back: the token and
\* the other items are stored.
LoggedIn ==
    /\ ~token
    /\ token' = TRUE
    /\ otherItems' = {"username", "isAdmin"}
    /\ UNCHANGED <<clock, ticks, monitoring, timers, inactivityTimer, lastActivity>>
    /\ UNCHANGED <<walletDataCache, walletCacheTimestamp, walletCacheWrittenAt>>
    /\ UNCHANGED <<fetchVars, callVars, dashVars, serverVars>>

\* The last statements of the try block, run once the for-in loop is over:
\* build formattedWalletData, update the cache, return.
FinishWallet(c, holdings) ==
    /\ wpc' = [wpc EXCEPT ![c] = "done"]
    /\ wholdings' = [wholdings EXCEPT ![c] = holdings]
    /\ wret' = [wret EXCEPT ![c] = FormattedWalletData(holdings)]
    /\ walletDataCache' = FormattedWalletData(holdings)
    /\ walletCacheTimestamp' = CacheTimestamp(walletCacheTimestamp, wnow[c])
    /\ walletCacheWrittenAt' = clock

\* getWalletData() is called: lines 218-237, up to the wallet request.
GetWalletData(c) ==
    /\ wpc[c] = "idle"
    /\ wnow' = [wnow EXCEPT ![c] = clock]
    /\ IF CacheValid(walletDataCache, walletCacheTimestamp, clock)
          THEN /\ wpc' = [wpc EXCEPT ![c] = "done"]
               /\ wret' = [wret EXCEPT ![c] = walletDataCache]
               /\ UNCHANGED wreqs
          ELSE IF TokenMissing(token)
                  THEN /\ wpc' = [wpc EXCEPT ![c] = "threw"]
                       /\ UNCHANGED <<wret, wreqs>>
                  ELSE /\ wpc' = [wpc EXCEPT ![c] = "wallet"]
                       /\ wreqs' = [wreqs EXCEPT ![c] = 1]
                       /\ UNCHANGED wret
    /\ UNCHANGED <<winput, wqueue, wholdings, wquotes>>
    /\ UNCHANGED <<fetchVars, pageVars, dashVars, serverVars>>

\* The wallet request completes: lines 239-306, up to the first price
\* request, or, when there is no coin, to the end of the function.
WalletResponse(c, wallets) ==
    /\ wpc[c] = "wallet"
    /\ \E ok \in BOOLEAN, purchases \in wallets :
          IF ~ok
             THEN \* fetch rejects, !walletResponse.ok or !walletData.success:
                  \* the catch block returns mockWalletData
                  /\ wpc' = [wpc EXCEPT ![c] = "done"]
                  /\ wret' = [wret EXCEPT ![c] = MockWalletData]
                  /\ walletDataCache' = CacheAfterCatch(walletDataCache, MockWalletData)
                  /\ UNCHANGED <<winput, wqueue, wholdings, wreqs>>
                  /\ UNCHANGED <<walletCacheTimestamp, walletCacheWrittenAt>>
             ELSE LET coinHoldings == GroupPurchases(purchases, <<>>)
                  IN  /\ winput' = [winput EXCEPT ![c] = purchases]
                      /\ IF coinHoldings = <<>>
                            THEN /\ FinishWallet(c, <<>>)
                                 /\ UNCHANGED <<wqueue, wreqs>>
                            ELSE /\ wpc' = [wpc EXCEPT ![c] = "prices"]
                                 /\ wqueue' = [wqueue EXCEPT ![c] = coinHoldings]
                                 /\ wholdings' = [wholdings EXCEPT ![c] = <<>>]
                                 /\ wreqs' = [wreqs EXCEPT ![c] = @ + 1]
                                 /\ UNCHANGED <<wret, walletDataCache,
                                                walletCacheTimestamp, walletCacheWrittenAt>>
    /\ UNCHANGED <<wnow, wquotes, clock, ticks, token, timerVars>>
    /\ UNCHANGED <<fetchVars, dashVars, serverVars>>

\* The price request of the coin at hand completes: the rest of the loop
\* body, then the next coin's price request or the end of the function.
PriceResponse(c, outcomes) ==
    /\ wpc[c] = "prices"
    /\ \E o \in outcomes : \E r \in MockDraws(o), r2 \in MockDraws(o) :
          LET h == Head(wqueue[c])
              currentPrice == CurrentPrice(o, h.symbol, r)
              quote == Quote(PriceKey(h.coin), o)
              holdings ==
                  Append(wholdings[c],
                         Holding(h, currentPrice, PreviousPrice(o, currentPrice, r2)))
          IN  /\ wqueue' = [wqueue EXCEPT ![c] = Tail(@)]
              /\ wquotes' = [wquotes EXCEPT ![c] = Append(@, quote)]
              /\ IF Tail(wqueue[c]) = <<>>
                    THEN /\ FinishWallet(c, holdings)
                         /\ UNCHANGED wreqs
                    ELSE /\ wholdings' = [wholdings EXCEPT ![c] = holdings]
                         /\ wreqs' = [wreqs EXCEPT ![c] = @ + 1]
                         /\ UNCHANGED <<wpc, wret, walletDataCache,
                                        walletCacheTimestamp, walletCacheWrittenAt>>
    /\ UNCHANGED <<wnow, winput, clock, ticks, token, timerVars>>
    /\ UNCHANGED <<fetchVars, dashVars, serverVars>>

\* The caller, getWalletData of dashboard.js (lines 187-224), takes the
\* outcome of the call and renders it; it may call again.
CallOver(c) ==
    /\ wpc[c] \in {"done", "threw"}
    /\ IF wpc[c] = "done"
          THEN /\ walletData' = wret[c].holdings
               /\ portfolioSummary' = renderPortfolioSummary(wret[c].holdings)
          ELSE /\ portfolioSummary' = Summary("alert", 0, Quotient(0, 1))
               /\ UNCHANGED walletData
    /\ wpc' = [wpc EXCEPT ![c] = "idle"]
    /\ winput' = [winput EXCEPT ![c] = <<>>]
    /\ wqueue' = [wqueue EXCEPT ![c] = <<>>]
    /\ wholdings' = [wholdings EXCEPT ![c] = <<>>]
    /\ wret' = [wret EXCEPT ![c] = NullData]
    /\ wreqs' = [wreqs EXCEPT ![c] = 0]
    /\ wquotes' = [wquotes EXCEPT ![c] = <<>>]
    /\ UNCHANGED wnow
    /\ UNCHANGED <<fetchVars, pageVars, serverVars>>

-----------------------------------------------------------------------------
(* Specifications                                                          *)

\* One fetchWithCORS call.
SpecFetch == Init /\ [][NextFetch]_vars

RECURSIVE SeqsUpTo(_, _)
SeqsUpTo(S, n) ==
    IF n = 0 THEN {<<>>}
    ELSE LET shorter == SeqsUpTo(S, n - 1)
         IN  shorter \cup {Append(q, x) : q \in shorter, x \in S}

\* The wallet responses of the aggregation runs.
Wallets ==
    SeqsUpTo({Purchase(coin, q, 0) : coin \in WalletCoins, q \in {0, Scale}}
                 \cup {Purchase(coin, Scale, Scale) : coin \in WalletCoins},
             MaxPurchases)

\* One caller aggregating wallets; the clock stands still.
NextWallet ==
    \/ GetWalletData("a")
    \/ WalletResponse("a", Wallets)
    \/ PriceResponse("a", PriceOutcomes)
    \/ CallOver("a")

SpecWallet == Init /\ [][NextWallet]_vars

\* The wallet responses of the cache runs, and the answers to their price
\* requests: a live price.
CacheWallets == {<<>>, <<Purchase("Dogecoin", Scale, 0)>>}

CachePriceOutcomes == {o \in PriceOutcomes : o.price = Scale /\ o.previousPrice = 0}

\* Calls over time, with the token coming and going.
NextCache ==
    \/ Tick({1, CACHE_DURATION - 1})
    \/ StoreToken
    \/ RemoveToken
    \/ \E c \in {"a"} :
          \/ GetWalletData(c)
          \/ WalletResponse(c, CacheWallets)
          \/ PriceResponse(c, CachePriceOutcomes)
          \/ CallOver(c)

SpecCache == Init /\ [][NextCache]_vars

\* The wallet responses of two callers whose calls overlap.
SharedWallets ==
    {<<Purchase("Dogecoin", Scale, Scale)>>, <<Purchase("Ripple", Scale, Scale)>>}

\* Two callers of getWalletData on one page: a call runs up to its next
\* await, and the other caller may run before it resumes.
NextShared ==
    \/ Tick({CACHE_DURATION - 1})
    \/ \E c \in AllCalls :
          \/ GetWalletData(c)
          \/ WalletResponse(c, SharedWallets)
          \/ PriceResponse(c, CachePriceOutcomes)
          \/ CallOver(c)

SpecShared == Init /\ [][NextShared]_vars

\* Buys, sales and wallet reads of one user, one request at a time.
NextServer ==
    \/ Buy(Bodies)
    \/ Sell(Bodies)
    \/ Wallet

SpecServer == Init /\ [][NextServer]_vars

\* The bodies of the purchases of one coin.
BuyBodies == {b \in ValidBodies : b.coin = "Dogecoin"}

\* Purchases of one coin and one aggregation of the wallet the server holds.
NextTrade ==
    \/ Buy(BuyBodies)
    \/ GetWalletData("a")
    \/ WalletResponse("a", {WalletBody(userPurchases)})
    \/ PriceResponse("a", PriceOutcomes)

SpecTrade == Init /\ [][NextTrade]_vars

\* A page with the auto-logout, over time.
NextInactivity ==
    \/ Tick({1, INACTIVITY_TIMEOUT - 1, INACTIVITY_TIMEOUT})
    \/ PageLoaded
    \/ Activity
    \/ LogoutDueToInactivity
    \/ LoggedIn

SpecInactivity == Init /\ [][NextInactivity]_vars

\* Purchases of one coin by requests that the server handles at once.
NextOverlap ==
    \E h \in Handlers :
        \/ BuyReceived(h, BuyBodies)
        \/ BuySaved(h)
        \/ BuyAnswered(h)

SpecOverlap == Init /\ [][NextOverlap]_vars

-----------------------------------------------------------------------------
(* Properties of getWalletData                                             *)

\* A step in which caller c's call starts, and one in which it ends with
\* the formatted wallet data of a successful wallet request.
StartStep(c) == wpc[c] = "idle" /\ wpc'[c] # "idle"
SuccessStep(c) ==
    /\ wpc[c] \in {"wallet", "prices"}
    /\ wpc'[c] = "done"
    /\ wret'[c].kind = "wallet"

CacheInWindow == walletDataCache.kind # "null" /\ clock - walletCacheTimestamp < 10000
CacheExpired == walletDataCache.kind # "null" /\ clock - walletCacheTimestamp >= 10000

\* C8: a call that starts less than 10000 ms after the timestamp of a
\* cached result returns that cached value, issues no network request and
\* leaves the cache as it is.
C8_CacheHitWithinTTL ==
    [][\A c \in AllCalls :
          (StartStep(c) /\ CacheInWindow) =>
              /\ wpc'[c] = "done"
              /\ wret'[c] = walletDataCache
              /\ wreqs'[c] = 0
              /\ UNCHANGED <<walletDataCache, walletCacheTimestamp>>]_vars

C8_Witness ==
    /\ wpc["a"] = "done"
    /\ wreqs["a"] = 0
    /\ walletDataCache.kind = "wallet"
    /\ wret["a"] = walletDataCache
    /\ wnow["a"] - walletCacheTimestamp = 9999

RECURSIVE AccumulatedQuantity(_, _)
AccumulatedQuantity(purchases, coin) ==
    IF purchases = <<>> THEN 0
    ELSE (IF Head(purchases).coin = coin THEN Head(purchases).quantity ELSE 0)
            + AccumulatedQuantity(Tail(purchases), coin)

\* C10: a coin whose accumulated quantity is <= 0 is not among the
\* holdings of the result, and the totals are those of the coins with a
\* positive quantity alone.
C10_NoHoldingForEmptyQuantity ==
    \A c \in AllCalls :
        (wpc[c] = "done" /\ wret[c].kind = "wallet" /\ wreqs[c] > 0) =>
            LET hs == wret[c].holdings
                held == {i \in DOMAIN hs :
                            AccumulatedQuantity(winput[c], hs[i].coin) > 0}
            IN  /\ held = DOMAIN hs
                /\ wret[c].totalBalance =
                      SumSeq([i \in DOMAIN hs |->
                                IF i \in held THEN hs[i].totalPrice ELSE 0])
                /\ wret[c].totalInvested =
                      SumSeq([i \in DOMAIN hs |->
                                IF i \in held THEN hs[i].quantity * hs[i].avgBuyPrice
                                ELSE 0])

\* The result of caller c's call is a summary built from a wallet response.
Summarised(c) == wpc[c] = "done" /\ wret[c].kind = "wallet"

IsWeightedMean(change, holdings) ==
    LET total == SumSeq([i \in DOMAIN holdings |-> holdings[i].totalPrice])
    IN  IF total = 0 THEN change = Quotient(0, 1)
        ELSE Times(change, Quotient(total, 1)) =
                 SumNumbers([i \in DOMAIN holdings |->
                     Times(Quotient(holdings[i].totalPrice, 1), holdings[i].changeValue)])

\* The portfolio24hChange of every summary is the weighted mean of the
\* changes of its holdings.
SummaryChangeIsWeightedMean ==
    \A c \in AllCalls :
        Summarised(c) => IsWeightedMean(wret[c].portfolio24hChange, wret[c].holdings)

\* C13: the portfolio 24-hour change, as the summary has it and as the
\* dashboard shows it, is 0 when the total value is 0 and otherwise the sum
\* over the holdings of value / total value * the holding's 24-hour change.
C13_PortfolioChangeIsWeightedMean ==
    /\ SummaryChangeIsWeightedMean
    /\ portfolioSummary.kind = "summary" =>
          IsWeightedMean(portfolioSummary.weightedDailyChange, walletData)

\* C14: in every summary the change24h, changeValue and roi of every
\* holding, portfolioROI and portfolio24hChange are finite numbers, and
\* portfolioROI is 0 when totalInvested, its denominator, is 0.  (avgBuyPrice
\* is a quotient by a quantity that line 334 keeps positive.)
C14_NoNaNNoInfinity ==
    \A c \in AllCalls :
        Summarised(c) =>
            /\ \A i \in DOMAIN wret[c].holdings :
                  /\ wret[c].holdings[i].quantity > 0
                  /\ IsFinite(wret[c].holdings[i].change24h)
                  /\ IsFinite(wret[c].holdings[i].changeValue)
                  /\ IsFinite(wret[c].holdings[i].roi)
            /\ IsFinite(wret[c].portfolioROI)
            /\ IsFinite(wret[c].portfolio24hChange)
            /\ wret[c].totalInvested = 0 => wret[c].portfolioROI = Quotient(0, 1)

\* The fields of a complete summary.
SummaryFields ==
    {"holdings", "totalBalance", "totalInvested", "totalProfitLoss", "portfolioROI",
     "portfolio24hChange"}

\* C15: no call of getWalletData rejects, and every call that has returned
\* has returned an object with all the fields of a complete summary.
C15_AlwaysCompleteSummary ==
    \A c \in AllCalls :
        /\ wpc[c] # "threw"
        /\ wpc[c] = "done" => SummaryFields \subseteq wret[c].fields

\* C16: whatever the price requests met (a throw, success false, a missing
\* or zero price), the loop goes through all the coins of the wallet: while
\* it runs, every coin is either emitted or still to come, and the summary
\* has one holding per coin, in the coins' order, each with a positive
\* price.
C16_PriceFailureNotFatal ==
    \A c \in AllCalls :
        LET coinHoldings == GroupPurchases(winput[c], <<>>)
        IN  /\ wpc[c] = "prices" =>
                  /\ Len(wholdings[c]) + Len(wqueue[c]) = Len(coinHoldings)
                  /\ \A i \in DOMAIN wholdings[c] :
                        /\ wholdings[c][i].coin = coinHoldings[i].coin
                        /\ wholdings[c][i].currentPrice > 0
            /\ (Summarised(c) /\ wreqs[c] > 0) =>
                  /\ Len(wret[c].holdings) = Len(coinHoldings)
                  /\ \A i \in DOMAIN wret[c].holdings :
                        /\ wret[c].holdings[i].coin = coinHoldings[i].coin
                        /\ wret[c].holdings[i].currentPrice > 0

\* A summary of two coins: the lookup of the first failed (its price is
\* below every live price, so it is a mock price), and the second coin has
\* its holding all the same.
C16_Witness ==
    /\ Summarised("a") /\ wreqs["a"] > 0
    /\ Len(wret["a"].holdings) = 2
    /\ wret["a"].holdings[1].coin = "Dogecoin"
    /\ wret["a"].holdings[1].currentPrice < 100
    /\ wret["a"].holdings[2].coin = "Ripple"
    /\ wret["a"].holdings[2].currentPrice >= 100

-----------------------------------------------------------------------------
(* Properties of the ledger and of its aggregation                         *)

\* The sum of a field over the ledger's transactions of a type and a coin.
LedgerSum(type, coin, field) ==
    SumSeq([i \in DOMAIN userTransactions |->
               IF userTransactions[i].type = type /\ userTransactions[i].coin = coin
                  THEN userTransactions[i][field] ELSE 0])

\* The ledger holds purchases of the one coin only, and caller a's summary
\* is of the wallet as the server holds it now.
OnlyBuysSummarised(coin) ==
    /\ userTransactions # <<>>
    /\ \A i \in DOMAIN userTransactions :
          userTransactions[i].type = "Buy" /\ userTransactions[i].coin = coin
    /\ Summarised("a")
    /\ winput["a"] = WalletBody(userPurchases)

\* C12: after purchases of one coin only, the summary has one holding, of
\* the quantity bought in all, whose avgBuyPrice is the sum of the purchases'
\* totalPrice over that quantity (to the cent), and totalInvested is that
\* sum (to the rounding of avgBuyPrice).
C12_BuysGiveQuantityCostAndAverage ==
    \A coin \in WalletCoins :
        OnlyBuysSummarised(coin) =>
            LET quantity == LedgerSum("Buy", coin, "quantity")
                paid == LedgerSum("Buy", coin, "totalPrice")
                holdings == wret["a"].holdings
            IN  /\ Len(holdings) = 1
                /\ holdings[1].coin = coin
                /\ holdings[1].quantity = quantity
                /\ holdings[1].avgBuyPrice = ToFixed(paid * 100, quantity)
                /\ Abs(wret["a"].totalInvested - paid * 100) * 2 <= quantity

\* The quantity of a coin in the purchases, 0 when it has no entry.
HeldQuantity(ps, coin) ==
    SumSeq([i \in DOMAIN ps |-> IF ps[i].coin = coin THEN ps[i].quantity ELSE 0])

\* A step in which the server answers a request.
ServerStep == serverVars' # serverVars

\* C17: a sale of more than is held of the coin, or of a coin that is not
\* held, is answered with the error status 400 and leaves the purchases and
\* the transactions as they were.
C17_OversellRejected ==
    [][(/\ ServerStep
        /\ sreq'.route = "sell"
        /\ sreq'.quantity > HeldQuantity(userPurchases, sreq'.coin))
           => /\ sstatus' = 400
              /\ UNCHANGED <<userPurchases, userTransactions>>]_vars

\* A sale of more than the quantity held of a coin that is held has just
\* been refused.
C17_Witness ==
    /\ sreq.route = "sell"
    /\ sstatus = 400
    /\ HeldQuantity(userPurchases, sreq.coin) > 0
    /\ sreq.quantity > HeldQuantity(userPurchases, sreq.coin)
    /\ sreq.totalPrice > 0

\* The transaction that matches the request just answered.
MatchingTransaction ==
    [type |-> IF sreq'.route = "buy" THEN "Buy" ELSE "Sell", coin |-> sreq'.coin,
     quantity |-> sreq'.quantity, totalPrice |-> sreq'.totalPrice]

\* A step in which a buy or a sale succeeds.
TradeSucceeds == ServerStep /\ sstatus' = 200 /\ sreq'.route \in {"buy", "sell"}

\* C18: a step that succeeds in a buy or a sale appends to the ledger the
\* one transaction that matches it; every other step, a wallet read and a
\* refused or failed request included, leaves the ledger as it was.
C18_LedgerAppendOnly ==
    [][IF TradeSucceeds
          THEN userTransactions' = Append(userTransactions, MatchingTransaction)
          ELSE UNCHANGED userTransactions]_vars

\* The ledger after a buy and a sale that has just succeeded.
C18_Witness ==
    /\ Len(userTransactions) >= 2
    /\ userTransactions[1].type = "Buy"
    /\ userTransactions[Len(userTransactions)].type = "Sell"
    /\ sreq.route = "sell" /\ sstatus = 200
    /\ userTransactions[Len(userTransactions)].quantity = sreq.quantity
    /\ userTransactions[Len(userTransactions)].totalPrice = sreq.totalPrice

\* The sum of a field over the transactions of a type and a coin that come
\* after the first `from` transactions of the ledger.
LedgerSumAfter(from, type, coin, field) ==
    SumSeq([i \in DOMAIN userTransactions |->
               IF /\ i > from
                  /\ userTransactions[i].type = type
                  /\ userTransactions[i].coin = coin
                  THEN userTransactions[i][field] ELSE 0])

\* C19: for every coin, the quantity in the purchases (0 without an entry)
\* is what the ledger's buys of the coin add up to less what its sales add
\* up to.
C19_QuantityMatchesLedger ==
    \A coin \in WalletCoins :
        HeldQuantity(userPurchases, coin) =
            LedgerSum("Buy", coin, "quantity") - LedgerSum("Sell", coin, "quantity")

\* One coin partly sold and still held, another bought.
C19_Witness ==
    /\ LedgerSum("Sell", "Dogecoin", "quantity") > 0
    /\ HeldQuantity(userPurchases, "Dogecoin") > 0
    /\ HeldQuantity(userPurchases, "Dogecoin") < LedgerSum("Buy", "Dogecoin", "quantity")
    /\ HeldQuantity(userPurchases, "Ripple") > 0

\* The totalPrice stored for a coin, 0 when it has no entry.
StoredTotalPrice(coin) ==
    SumSeq([i \in DOMAIN userPurchases |->
               IF userPurchases[i].coin = coin THEN userPurchases[i].totalPrice ELSE 0])

\* The place in the ledger of the last sale that sold the coin out, 0 when
\* there is none.
LastSoldOut(coin) ==
    LET out == {i \in DOMAIN userTransactions :
                   /\ userTransactions[i].type = "Sell"
                   /\ userTransactions[i].coin = coin
                   /\ LedgerSum("Buy", coin, "quantity")
                          - LedgerSumAfter(i, "Buy", coin, "quantity")
                        = LedgerSum("Sell", coin, "quantity")
                            - LedgerSumAfter(i, "Sell", coin, "quantity")}
    IN  IF out = {} THEN 0 ELSE CHOOSE i \in out : \A j \in out : j <= i

\* C20 as stated: the totalPrice stored for a held coin is the sum of the
\* totalPrice of all its buys less that of all its sales in the ledger.
C20_StoredCostMatchesLedger ==
    \A coin \in WalletCoins :
        HeldQuantity(userPurchases, coin) > 0 =>
            StoredTotalPrice(coin) =
                LedgerSum("Buy", coin, "totalPrice") - LedgerSum("Sell", coin, "totalPrice")

\* C20 amended: the totalPrice stored for a held coin is the sum of the
\* totalPrice of its buys less that of its sales since the last sale that
\* sold the coin out; a coin that is not held has no entry.
C20_StoredCostMatchesLedgerSinceSoldOut ==
    \A coin \in WalletCoins :
        IF ExistingPurchase(userPurchases, coin) = 0
           THEN HeldQuantity(userPurchases, coin) = 0
           ELSE /\ HeldQuantity(userPurchases, coin) > 0
                /\ StoredTotalPrice(coin) =
                      LedgerSumAfter(LastSoldOut(coin), "Buy", coin, "totalPrice")
                        - LedgerSumAfter(LastSoldOut(coin), "Sell", coin, "totalPrice")

\* A coin sold out at another price than it was bought for, and bought again.
C20_Witness ==
    /\ LastSoldOut("Dogecoin") > 0
    /\ HeldQuantity(userPurchases, "Dogecoin") > 0
    /\ StoredTotalPrice("Dogecoin") #
          LedgerSum("Buy", "Dogecoin", "totalPrice")
            - LedgerSum("Sell", "Dogecoin", "totalPrice")

\* C21: the totalPrice stored for every coin in the purchases is not
\* negative.
C21_StoredCostNotNegative ==
    \A i \in DOMAIN userPurchases : userPurchases[i].totalPrice >= 0

\* A step in which a buy or a sale is asked for with a body that lacks the
\* coin, or whose quantity or totalPrice is missing, zero or negative.
BadBodyStep ==
    /\ ServerStep
    /\ sreq'.route \in {"buy", "sell"}
    /\ (sreq'.coin = "" \/ sreq'.quantity <= 0 \/ sreq'.totalPrice <= 0)

\* C22: every transaction of the ledger has a coin, a quantity > 0 and a
\* totalPrice > 0, and a buy or a sale with a bad body is answered with
\* status 400 and changes neither the purchases nor the transactions.
C22_BadBodyRejected ==
    /\ [](\A i \in DOMAIN userTransactions :
              /\ userTransactions[i].coin # ""
              /\ userTransactions[i].quantity > 0
              /\ userTransactions[i].totalPrice > 0)
    /\ [][BadBodyStep => /\ sstatus' = 400
                         /\ UNCHANGED <<userPurchases, userTransactions>>]_vars

\* A sale with a negative totalPrice of a coin that is held has just been
\* refused.
C22_Witness ==
    /\ sreq.route = "sell"
    /\ sreq.totalPrice < 0
    /\ sstatus = 400
    /\ HeldQuantity(userPurchases, sreq.coin) >= sreq.quantity
    /\ userTransactions # <<>>

-----------------------------------------------------------------------------
(* Properties of the mock price                                            *)

\* The base price the band of a symbol is centred on, in 1/10000 dollar.
BandBase(symbol) ==
    IF symbol = "BTC" THEN 50000 * Scale
    ELSE IF symbol = "DOGE" THEN Scale \div 4
    ELSE 100 * Scale

\* C23: the mock response of a price request carries a price within 5% of
\* the base price of the symbol of the request: 50000 for BTC, 0.25 for
\* DOGE, 100 for a symbol the table does not have.
C23_MockPriceInBand ==
    (fpc = "returned" /\ IsMock(result)) =>
        /\ AllSourcesFailed
        /\ Abs(result.price - BandBase(endpoint.coin)) <= BandBase(endpoint.coin) \div 20

\* A mock response for DOGE above the base price.
C23_Witness ==
    /\ fpc = "returned" /\ IsMock(result)
    /\ endpoint.coin = "DOGE"
    /\ result.price > BandBase("DOGE")

-----------------------------------------------------------------------------
(* Properties of the holdings and of their price requests                  *)

\* Caller c's call has built its summary itself, from a wallet response
\* and the answers logged in wquotes.
Aggregated(c) == Summarised(c) /\ wreqs[c] > 0

\* C24: the changeValue of a holding is (price - previousPrice) /
\* previousPrice * 100 when the answer to its price request has a
\* previousPrice, and 0 when it has none.
C24_ChangeFromPriorPriceOrZero ==
    \A c \in AllCalls :
        Aggregated(c) =>
            \A i \in DOMAIN wret[c].holdings :
                LET q == wquotes[c][i]
                IN  wret[c].holdings[i].changeValue =
                        IF q.previousPrice > 0
                           THEN Quotient(100 * (q.price - q.previousPrice), q.previousPrice)
                           ELSE Quotient(0, 1)

\* The answer {success: true, price: p} to a price request.
LiveAnswer(p) == [type |-> "json", success |-> TRUE, price |-> p, previousPrice |-> 0]

\* The holding the aggregator emits for the coin group h when its price
\* request is answered by LiveAnswer(p).
LivePriced(h, p) ==
    LET currentPrice == CurrentPrice(LiveAnswer(p), h.symbol, 0)
    IN  Holding(h, currentPrice, PreviousPrice(LiveAnswer(p), currentPrice, 0))

\* C25: a holding priced with a mock price can be told apart from a
\* holding priced live: it is not the holding that a live answer with the
\* same price produces for the same coin group.
C25_SyntheticPriceMarked ==
    \A c \in AllCalls :
        Aggregated(c) =>
            \A i \in DOMAIN wret[c].holdings :
                wquotes[c][i].price = 0 =>
                    \A r \in Randoms :
                        wret[c].holdings[i] #
                            LivePriced(GroupPurchases(winput[c], <<>>)[i],
                                       mockCryptoPrice(wret[c].holdings[i].symbol, r))

\* C26: the price request of a holding asks for the ticker symbol of the
\* holding, the symbol the emitted holding stores.
C26_RequestKeyedBySymbol ==
    \A c \in AllCalls :
        Aggregated(c) =>
            \A i \in DOMAIN wret[c].holdings :
                wquotes[c][i].key = wret[c].holdings[i].symbol

\* The coins of the purchase records, each once, in the order in which
\* they first appear.
FirstAppearances(purchases) ==
    LET first == {i \in DOMAIN purchases :
                     \A j \in 1 .. (i - 1) : purchases[j].coin # purchases[i].coin}
    IN  [k \in 1 .. Cardinality(first) |->
            purchases[CHOOSE i \in first : Cardinality({j \in first : j <= i}) = k].coin]

\* C27: the holdings of a summary are one per distinct coin of the
\* purchase records, in the order in which the coins first appear, and
\* totalAssets is the number of distinct coins.
C27_OneHoldingPerCoinInOrder ==
    \A c \in AllCalls :
        Aggregated(c) =>
            /\ [i \in DOMAIN wret[c].holdings |-> wret[c].holdings[i].coin] =
                   FirstAppearances(winput[c])
            /\ wret[c].totalAssets =
                   Cardinality({winput[c][i].coin : i \in DOMAIN winput[c]})

\* Two purchase records of one coin have been folded into one holding.
C27_Witness ==
    /\ Aggregated("a")
    /\ Len(winput["a"]) = 2
    /\ winput["a"][1].coin = winput["a"][2].coin
    /\ Len(wret["a"].holdings) = 1
    /\ wret["a"].totalAssets = 1

\* The quantity and the cost of the records of one coin, a missing
\* quantity and a missing price counting as 0.
QuantityOf(purchases, coin) ==
    SumSeq([i \in DOMAIN purchases |->
               IF purchases[i].coin = coin THEN purchases[i].quantity ELSE 0])

CostOf(purchases, coin) ==
    SumSeq([i \in DOMAIN purchases |->
               IF purchases[i].coin = coin
                  THEN purchases[i].quantity * purchases[i].purchasePrice ELSE 0])

\* C28: a purchase record without a quantity or without a price is folded
\* in as 0: the quantity of a holding is the sum of the quantities of the
\* records of its coin and its average price is the sum of their costs
\* over that quantity, whatever the other records are; the call returns a
\* summary with a holding for every coin.
C28_MissingFieldsFoldedAsZero ==
    \A c \in AllCalls :
        Aggregated(c) =>
            /\ Len(wret[c].holdings) = Len(FirstAppearances(winput[c]))
            /\ \A i \in DOMAIN wret[c].holdings :
                  LET h == wret[c].holdings[i]
                      quantity == QuantityOf(winput[c], h.coin)
                      cost == CostOf(winput[c], h.coin)
                  IN  /\ quantity > 0 => h.quantity = quantity
                      /\ quantity > 0 /\ cost > 0 =>
                             h.avgBuyPrice = ToFixed(cost, quantity * 100)

\* A record without a price has been folded in with a priced record of the
\* same coin: the quantity counts both, the cost only the priced one.
C28_Witness ==
    /\ Aggregated("a")
    /\ Len(winput["a"]) = 2
    /\ winput["a"][1].coin = winput["a"][2].coin
    /\ winput["a"][1].purchasePrice = 0
    /\ winput["a"][1].quantity > 0
    /\ winput["a"][2].purchasePrice > 0
    /\ wret["a"].holdings[1].quantity = winput["a"][1].quantity + winput["a"][2].quantity
    /\ wret["a"].holdings[1].avgBuyPrice = 50

-----------------------------------------------------------------------------
(* fetchWithCORS: requests that never complete                             *)

\* The last request of the call is a direct request that never completes.
DirectRequestHangs ==
    /\ netLog # <<>>
    /\ netLog[Len(netLog)].target = 0
    /\ netLog[Len(netLog)].outcome = "never"

\* C29: a direct request that never completes is aborted and the call
\* goes on to the proxies; no call is left waiting for a request without
\* end.
C29_HungDirectCallFallsThrough ==
    /\ DirectRequestHangs => fpc \in {"proxy", "returned", "threw"}
    /\ fpc # "pending"

-----------------------------------------------------------------------------
(* Properties of the cache under overlapping calls                         *)

\* Caller c's call completes in this step, having built its summary itself.
Completes(c) ==
    /\ wpc[c] \in {"wallet", "prices"}
    /\ wpc'[c] = "done"
    /\ wret'[c].kind = "wallet"

\* C30: between two steps of any call, walletDataCache and
\* walletCacheTimestamp are the summary and the start time of one and the
\* same completed call: a step that changes either of them is the
\* completion of a call and leaves both with the values of that call.
C30_CachePairWrittenByOneCall ==
    [][(walletDataCache' # walletDataCache \/ walletCacheTimestamp' # walletCacheTimestamp)
          => \E c \in AllCalls :
                /\ Completes(c)
                /\ walletDataCache' = wret'[c]
                /\ walletCacheTimestamp' = wnow[c]]_vars

\* Two calls have overlapped: the call that started first has completed
\* last and the cache holds its summary and its start time.
C30_Witness ==
    /\ wpc["a"] = "done" /\ wreqs["a"] > 0
    /\ wpc["b"] = "done" /\ wreqs["b"] > 0
    /\ wnow["a"] < wnow["b"]
    /\ wret["a"] # wret["b"]
    /\ walletDataCache = wret["a"]
    /\ walletCacheTimestamp = wnow["a"]

\* Caller c's call is waiting for the answer to one of its requests.
InFlight(c) == wpc[c] \in {"wallet", "prices"}

\* The state of caller c's call.
CallState(c) == <<wpc[c], wnow[c], winput[c], wqueue[c], wholdings[c], wret[c], wreqs[c]>>

NoValidEntry == walletDataCache.kind = "null" \/ clock - walletCacheTimestamp >= 10000

\* C31: a call that starts while the call of the other caller is in flight
\* and the cache holds no valid entry issues a wallet request of its own;
\* a step of one call leaves the call of the other caller as it is; and a
\* call that completes leaves in the cache its own summary, with a holding
\* for every coin of its wallet response.
C31_OverlappingCallsIndependent ==
    [][\A c \in AllCalls : \A d \in AllCalls \ {c} :
          /\ (StartStep(c) /\ InFlight(d) /\ NoValidEntry /\ token) =>
                (wpc'[c] = "wallet" /\ wreqs'[c] = 1)
          /\ CallState(c)' # CallState(c) => CallState(d)' = CallState(d)
          /\ (Completes(c) /\ wreqs[d] > 0) =>
                /\ walletDataCache' = wret'[c]
                /\ Len(walletDataCache'.holdings) = Len(FirstAppearances(winput'[c]))]_vars

\* Two calls have overlapped with requests of their own, and the cache
\* holds the summary of the one that completed last.
C31_Witness ==
    /\ wpc["a"] = "done" /\ wreqs["a"] = 2
    /\ wpc["b"] = "done" /\ wreqs["b"] = 2
    /\ wnow["a"] = wnow["b"]
    /\ wret["a"] # wret["b"]
    /\ walletDataCache = wret["b"]

\* C32: a call that starts less than 10000 ms after the cache entry was
\* written returns the cached value and issues no request, however long
\* the call that wrote the entry has run.
C32_TTLCountsFromWrite ==
    [][\A c \in AllCalls :
          (StartStep(c) /\ walletDataCache.kind # "null"
                /\ clock - walletCacheWrittenAt < 10000) =>
              /\ wpc'[c] = "done"
              /\ wret'[c] = walletDataCache
              /\ wreqs'[c] = 0]_vars

\* Caller c's call ends in this step with the fallback object of the
\* catch block.
FailureStep(c) ==
    /\ wpc[c] = "wallet"
    /\ wpc'[c] = "done"
    /\ wret'[c].kind = "fallback"

C34_NoTokenNoWalletData ==
    [][\A c \in AllCalls :
          (StartStep(c) /\ ~token) =>
              /\ wpc'[c] = "threw"
              /\ wreqs'[c] = 0]_vars

-----------------------------------------------------------------------------
(* fetchWithCORS: headers and the end of the proxy chain                   *)

C36_OtherEndpointThrows ==
    /\ (Finished /\ ~endpoint.price /\ AllSourcesFailed) =>
          /\ fpc = "threw"
          /\ thrown = IF netLog[Len(netLog)].msg = "empty"
                         THEN "generic" ELSE netLog[Len(netLog)].msg
          /\ result = NoResult
    /\ ~endpoint.price => (via # "mock" /\ ~IsMock(result))
    /\ fpc = "threw" <=> thrown # "none"
    /\ fpc = "threw" => (~endpoint.price /\ AllSourcesFailed)

\* A call for another endpoint has thrown the message of the third proxy.
C36_Witness ==
    /\ fpc = "threw"
    /\ ~endpoint.price
    /\ thrown = "msg"
    /\ netLog[Len(netLog)].target = 3
    /\ netLog[Len(netLog) - 1].msg = "empty"

-----------------------------------------------------------------------------
(* Properties of requests handled at once                                  *)

\* Both handlers have answered 200 to a purchase of the coin.
BothSucceeded(coin) ==
    \A h \in Handlers :
        hpc[h] = "responded" /\ hstatus[h] = 200 /\ hbody[h].coin = coin

\* C37: once two purchases of a coin handled at once have both been
\* answered with success, the entry the server finds for the coin holds
\* the quantity and the totalPrice that the purchases of the ledger add up
\* to.
C37_NoLostUpdate ==
    \A coin \in WalletCoins :
        BothSucceeded(coin) =>
            LET i == ExistingPurchase(userPurchases, coin)
            IN  /\ i # 0
                /\ userPurchases[i].quantity = LedgerSum("Buy", coin, "quantity")
                /\ userPurchases[i].totalPrice = LedgerSum("Buy", coin, "totalPrice")

\* C38: with requests handled one at a time, the purchases hold at most
\* one entry per coin and every entry has a quantity above 0.
C38_OneEntryPerCoinAllPositive ==
    /\ \A i, j \in DOMAIN userPurchases :
          userPurchases[i].coin = userPurchases[j].coin => i = j
    /\ \A i \in DOMAIN userPurchases : userPurchases[i].quantity > 0

\* A coin bought and sold out has no entry left, next to a coin that is
\* held, and the last request has been refused.
C38_Witness ==
    /\ Len(userTransactions) = 3
    /\ userTransactions[1].type = "Buy"
    /\ userTransactions[2].type = "Buy"
    /\ userTransactions[3].type = "Sell"
    /\ userTransactions[3].coin = "Dogecoin"
    /\ ExistingPurchase(userPurchases, "Dogecoin") = 0
    /\ ExistingPurchase(userPurchases, "Ripple") = 1
    /\ sstatus = 400

-----------------------------------------------------------------------------
(* Properties of the auto-logout                                           *)

\* The monitoring is set up and no activity has reset the timer for
\* INACTIVITY_TIMEOUT.
Inactive == monitoring /\ clock - lastActivity >= 240000

====
